---- MODULE Spec2Model ----
(***************************************************************************)
(* A model of merge_metadata.py: the sidecar lookup find_json_for_media    *)
(* delete_empty_folders and main().  File names and paths are sequences   *)
(* of one-character strings, so that basename, dirname, splitext,          *)
(* startswith and the regular expressions are computed, not assumed.       *)
(***************************************************************************)
EXTENDS Integers, Sequences, FiniteSets, TLC

VARIABLES
    fs,                         \* the files on disk: path -> [bytes, atime, mtime]
    dirs,                       \* the directories on disk
    pc,                         \* position in main()
    all_media_files,            \* main: list built by the scan
    all_json_files,             \* main: list built by the scan
    idx,                        \* position of the for loop in all_media_files
    json_filepath,              \* main: sidecar resolved for the current file
    timestamp,                  \* main: timestamp read from the sidecar
    processed_files,            \* main: counter
    skipped_files,              \* main: counter
    processed_media_basenames,  \* main: the cleanup keys
    deleted_count,              \* main: counter of the sidecar deletion
    removed,                    \* the sidecar paths os.remove was applied to
    outcome,                    \* per media file: the branch that counted it
    resolved,                   \* per media file: the sidecar the loop used
    events,                     \* per media file: the operations applied to it
    nfaults,                    \* number of failing calls injected so far
    delete_choice,              \* main: answer to the sidecar prompt, "" before it
    cleanup_choice,             \* main: answer to the folder prompt, "" before it
    deleted_folders_count,      \* delete_empty_folders: counter
    remove_failed,              \* the sidecar paths whose os.remove raised
    rmdir_failed,               \* the directories whose os.rmdir raised
    run,                        \* 1 in the first run of the script, 2 in a rerun
    relocated                   \* the paths earlier runs moved media files to

\* the variables of the two cleanup operations
cleanup_state == <<delete_choice, cleanup_choice, deleted_folders_count,
                   remove_failed, rmdir_failed>>

\* the variables that tell a rerun from a first run
history == <<run, relocated>>

vars == <<fs, dirs, pc, all_media_files, all_json_files, idx, json_filepath,
          timestamp, processed_files, skipped_files, processed_media_basenames,
          deleted_count, removed, outcome, resolved, events, nfaults,
          cleanup_state, history>>

-----------------------------------------------------------------------------
(* Bounds of the model *)

\* at most this many media files on disk
MaxMedia == 2
\* at most this many sidecar files on disk
MaxJson == 2
\* at most this many failing library or system calls in one run
MaxFaults == 2
\* at most this many sidecars in the list given to find_json_for_media alone
MaxPool == 3

-----------------------------------------------------------------------------
(* Strings as sequences of characters *)

None == <<>>

\* stands for a sidecar without photoTakenTime.timestamp, and for no tag
NoTimestampValue == 0

Max(S) == CHOOSE x \in S : \A y \in S : y <= x
Min(S) == CHOOSE x \in S : \A y \in S : x <= y

UpperLetters == <<"A","B","C","D","E","F","G","H","I","J","K","L","M",
                  "N","O","P","Q","R","S","T","U","V","W","X","Y","Z">>
LowerLetters == <<"a","b","c","d","e","f","g","h","i","j","k","l","m",
                  "n","o","p","q","r","s","t","u","v","w","x","y","z">>
Digits == {"0","1","2","3","4","5","6","7","8","9"}

lower_char(c) ==
    IF \E i \in 1..26 : UpperLetters[i] = c
    THEN LowerLetters[CHOOSE i \in 1..26 : UpperLetters[i] = c]
    ELSE c

lower(s) == [i \in 1..Len(s) |-> lower_char(s[i])]

startswith(s, p) == Len(p) <= Len(s) /\ SubSeq(s, 1, Len(p)) = p

endswith(s, p) == Len(p) <= Len(s) /\ SubSeq(s, Len(s) - Len(p) + 1, Len(s)) = p

isspace(c) == c = " "

\* str.strip(): leading and trailing whitespace removed
strip(s) ==
    LET I == {i \in 1..Len(s) : ~isspace(s[i])}
    IN  IF I = {} THEN <<>> ELSE SubSeq(s, Min(I), Max(I))

LastIndexOf(s, c) ==
    LET I == {i \in 1..Len(s) : s[i] = c}
    IN  IF I = {} THEN 0 ELSE Max(I)

join(a, b) == a \o <<"/">> \o b

basename(p) == SubSeq(p, LastIndexOf(p, "/") + 1, Len(p))

dirname(p) ==
    LET i == LastIndexOf(p, "/")
    IN  IF i <= 1 THEN SubSeq(p, 1, i) ELSE SubSeq(p, 1, i - 1)

\* os.path.splitext of a file name: <<root, ext>>; the extension starts at the
\* last dot, unless only dots precede it
splitext(name) ==
    LET d == LastIndexOf(name, ".")
    IN  IF d > 0 /\ \E k \in 1..(d - 1) : name[k] # "."
        THEN <<SubSeq(name, 1, d - 1), SubSeq(name, d, Len(name))>>
        ELSE <<name, <<>>>>

DotJson == <<".","j","s","o","n">>
DotJpg == <<".","j","p","g">>
DotMp4 == <<".","m","p","4">>

\* Index of the "(" of a trailing "(digits)", 0 when the name does not end so.
TrailingNumber(s) ==
    LET n == Len(s)
        P == {i \in 1..n : s[i] = "(" /\ i + 1 < n
                           /\ \A k \in (i + 1)..(n - 1) : s[k] \in Digits}
    IN  IF n >= 3 /\ s[n] = ")" /\ P # {} THEN Max(P) ELSE 0

\* re.match(r'(.+?)\s*\(\d+\)$', base_name): the end of group 1, 0 for no match.
\* Group 1 is lazy: the shortest non-empty prefix followed only by whitespace
\* up to the "(".
numbered_match(base_name) ==
    LET p == TrailingNumber(base_name)
        G == {g \in 1..(p - 1) : \A k \in (g + 1)..(p - 1) : isspace(base_name[k])}
    IN  IF p >= 2 THEN Min(G) ELSE 0

\* base_name.lower().endswith(('-edited', '_edited'))
is_edited(base_name) ==
    \/ endswith(lower(base_name), <<"-","e","d","i","t","e","d">>)
    \/ endswith(lower(base_name), <<"_","e","d","i","t","e","d">>)

\* re.sub(r'[-_]edited$', '', s, flags=re.IGNORECASE)
strip_edited(s) == IF is_edited(s) THEN SubSeq(s, 1, Len(s) - 7) ELSE s

\* re.sub(r'\(\d+\)$', '', s)
strip_number(s) ==
    IF TrailingNumber(s) > 0 THEN SubSeq(s, 1, TrailingNumber(s) - 1) ELSE s

-----------------------------------------------------------------------------
(* find_json_for_media *)

\* json_map = {os.path.basename(f): f for f in all_json_files}, looked up at
\* name: a later path of the same basename replaces an earlier one
json_map(jsons, name) ==
    LET I == {i \in 1..Len(jsons) : basename(jsons[i]) = name}
    IN  IF I = {} THEN None ELSE jsons[Max(I)]

search_candidates(media_filename) ==
    LET base_name == splitext(media_filename)[1]
        ext == splitext(media_filename)[2]
        g == numbered_match(base_name)
        original_base == strip(SubSeq(base_name, 1, g))
        numbered_part == SubSeq(base_name, Len(original_base) + 1, Len(base_name))
        edited_base == strip_edited(base_name)
    IN  <<media_filename \o DotJson, base_name \o DotJson>>
        \o (IF g > 0 THEN <<original_base \o ext \o numbered_part \o DotJson>>
            ELSE <<>>)
        \o (IF is_edited(base_name)
            THEN <<edited_base \o ext \o DotJson, edited_base \o DotJson>>
            ELSE <<>>)

\* the loop over search_candidates: the first candidate that is in json_map
exact_match(media_filepath, jsons) ==
    LET cands == search_candidates(basename(media_filepath))
        H == {i \in 1..Len(cands) : json_map(jsons, cands[i]) # None}
    IN  IF H = {} THEN None ELSE json_map(jsons, cands[Min(H)])

\* the first sidecar of the media file's directory whose name without .json
\* is a prefix of the media file name
prefix_match(media_filepath, jsons) ==
    LET media_filename == basename(media_filepath)
        H == {i \in 1..Len(jsons) :
                /\ dirname(jsons[i]) = dirname(media_filepath)
                /\ startswith(media_filename, splitext(basename(jsons[i]))[1])}
    IN  IF H = {} THEN None ELSE jsons[Min(H)]

\* the first sidecar of the media file's directory whose name starts with the
\* media file name or with its base name
supplemental_match(media_filepath, jsons) ==
    LET media_filename == basename(media_filepath)
        base_name == splitext(media_filename)[1]
        H == {i \in 1..Len(jsons) :
                /\ dirname(jsons[i]) = dirname(media_filepath)
                /\ \/ startswith(basename(jsons[i]), media_filename)
                   \/ startswith(basename(jsons[i]), base_name)}
    IN  IF H = {} THEN None ELSE jsons[Min(H)]

find_json_for_media(media_filepath, jsons) ==
    IF exact_match(media_filepath, jsons) # None
    THEN exact_match(media_filepath, jsons)
    ELSE IF prefix_match(media_filepath, jsons) # None
    THEN prefix_match(media_filepath, jsons)
    ELSE supplemental_match(media_filepath, jsons)

-----------------------------------------------------------------------------
(* The directory tree and the files the runs start from *)

root_directory == <<".">>
completed_directory == join(root_directory, <<"C","o","m","p","l","e","t","e","d">>)

DirA == join(root_directory, <<"A">>)
DirB == join(root_directory, <<"B">>)
\* a folder without files inside DirA
DirS == join(DirA, <<"S">>)

\* the directory tree a run starts with
Tree == {root_directory, DirA, DirB, DirS}

supported_extensions ==
    {DotJpg, <<".","j","p","e","g">>, DotMp4, <<".","m","k","v">>,
     <<".","h","e","i","c">>, <<".","g","i","f">>, <<".","f","l","v">>,
     <<".","p","n","g">>, <<".","w","e","b","p">>, <<".","m","p">>}

raw_extensions ==
    {<<".","n","e","f">>, <<".","c","r","2">>, <<".","a","r","w">>,
     <<".","d","n","g">>}

image_extensions ==
    {<<"j","p","g">>, <<"j","p","e","g">>, <<"h","e","i","c">>,
     <<"p","n","g">>, <<"w","e","b","p">>}

video_extensions ==
    {<<"m","p","4">>, <<"m","k","v">>, <<"g","i","f">>, <<"f","l","v">>,
     <<"m","p">>}

\* the media files a run may start with
MediaPool ==
    {join(DirA, <<"a">> \o DotJpg),
     join(DirA, <<"a","b">> \o DotMp4),
     join(DirB, <<"a">> \o DotJpg)}

\* the sidecar files a run may start with
JsonPool ==
    {join(DirA, <<"a">> \o DotJson),
     join(DirA, <<"a","b">> \o DotMp4 \o DotJson),
     join(DirB, <<"a">> \o DotJpg \o DotJson)}

\* the photoTakenTime.timestamp of a sidecar that holds one: a value of its
\* own for every sidecar, so that a timestamp tells which sidecar it is from
Epoch == 1700000000
PhotoTakenTime(p) == Epoch + Len(p)

\* modification time of every file before the run
OriginalTime == 1

SubsetsUpTo(S, n) == {T \in SUBSET S : Cardinality(T) <= n}

\* the orders in which a finite set can be listed
Perms(S) ==
    {s \in [1..Cardinality(S) -> S] :
        \A a, b \in 1..Cardinality(S) : a # b => s[a] # s[b]}

\* a media file as the run finds it: its own bytes, not yet tagged
MediaFile(p) ==
    [bytes |-> [id |-> p, st |-> "orig", ts |-> NoTimestampValue],
     atime |-> OriginalTime, mtime |-> OriginalTime]

\* a sidecar whose photoTakenTime.timestamp is t
JsonFile(p, t) ==
    [bytes |-> [id |-> p, st |-> "json", ts |-> t],
     atime |-> OriginalTime, mtime |-> OriginalTime]

\* the file systems over the given pools
FileSystems(MP, JP, nm, nj) ==
    UNION {UNION {{[p \in M \cup J |-> IF p \in M THEN MediaFile(p)
                                       ELSE JsonFile(p, IF dated[p]
                                                        THEN PhotoTakenTime(p)
                                                        ELSE NoTimestampValue)] :
                      dated \in [J -> BOOLEAN]} :
                  J \in SubsetsUpTo(JP, nj)} :
           M \in SubsetsUpTo(MP, nm)}

InitCommon ==
    /\ json_filepath = None
    /\ timestamp = NoTimestampValue
    /\ processed_files = 0
    /\ skipped_files = 0
    /\ processed_media_basenames = {}
    /\ deleted_count = 0
    /\ removed = {}
    /\ nfaults = 0
    /\ delete_choice = ""
    /\ cleanup_choice = ""
    /\ deleted_folders_count = 0
    /\ remove_failed = {}
    /\ rmdir_failed = {}
    /\ run = 1
    /\ relocated = {}

Init ==
    /\ fs \in FileSystems(MediaPool, JsonPool, MaxMedia, MaxJson)
    /\ dirs = Tree
    /\ pc = "start"
    /\ all_media_files = <<>>
    /\ all_json_files = <<>>
    /\ idx = 1
    /\ outcome = <<>>
    /\ resolved = <<>>
    /\ events = <<>>
    /\ InitCommon

-----------------------------------------------------------------------------
(* main: creation of the output directory and the scan *)

CreateCompleted ==
    /\ pc = "start"
    /\ dirs' = dirs \cup {completed_directory}
    /\ pc' = "scan"
    /\ UNCHANGED <<fs, all_media_files, all_json_files, idx, json_filepath,
                   timestamp, processed_files, skipped_files,
                   processed_media_basenames, deleted_count, removed, outcome,
                   resolved, events, nfaults>>
    /\ UNCHANGED <<cleanup_state, history>>

\* os.path.abspath of a path written from the root directory "."
Cwd == <<"/","w">>
abspath(p) == IF p = root_directory THEN Cwd ELSE Cwd \o SubSeq(p, 2, Len(p))

IsUnder(d, p) == startswith(d, p \o <<"/">>)

\* the orders in which os.walk(top-down) yields the directories: the root
\* first, every directory after its parent, every subtree contiguous
WalkOrders(ds) ==
    {o \in Perms(ds) :
        /\ o[1] = root_directory
        /\ \A i \in 2..Len(o) :
              \E k \in 1..(i - 1) :
                  /\ o[k] = dirname(o[i])
                  /\ \A m \in (k + 1)..(i - 1) : IsUnder(o[m], o[k])}

Pos(o, d) == CHOOSE i \in 1..Len(o) : o[i] = d

\* list s holds its files directory by directory, in the order of the walk
InWalkOrder(s, o) ==
    \A a, b \in 1..Len(s) :
        a < b => Pos(o, dirname(s[a])) <= Pos(o, dirname(s[b]))

\* (mutant) the walk skips no directory
ScannedAll(p) == TRUE

\* the walk skips every directory whose absolute path starts with that of the
\* output directory
Scanned(p) == ~startswith(abspath(dirname(p)), abspath(completed_directory))

extension(p) == lower(splitext(basename(p))[2])

ScannedMedia == {p \in DOMAIN fs : Scanned(p) /\ extension(p) \in supported_extensions}
ScannedJson ==
    {p \in DOMAIN fs : Scanned(p) /\ extension(p) \notin supported_extensions
                       /\ extension(p) \notin raw_extensions
                       /\ extension(p) = DotJson}

\* the directories whose files the walk reads, the root among them
ScannedDirs == {d \in dirs : d = root_directory \/ Scanned(join(d, <<"x">>))}

Scan ==
    /\ pc = "scan"
    /\ \E o \in WalkOrders(ScannedDirs) :
         \E m \in Perms(ScannedMedia) :
           \E j \in Perms(ScannedJson) :
              /\ InWalkOrder(m, o)
              /\ InWalkOrder(j, o)
              /\ all_media_files' = m
              /\ all_json_files' = j
    /\ idx' = 1
    /\ outcome' = [f \in ScannedMedia |-> "pending"]
    /\ resolved' = [f \in ScannedMedia |-> None]
    /\ events' = [f \in ScannedMedia |-> <<>>]
    /\ pc' = "loop"
    /\ UNCHANGED <<fs, dirs, json_filepath, timestamp, processed_files,
                   skipped_files, processed_media_basenames, deleted_count,
                   removed, nfaults>>
    /\ UNCHANGED <<cleanup_state, history>>

-----------------------------------------------------------------------------
(* main: the loop over all_media_files *)

media_filepath == all_media_files[idx]

InLoop == pc = "loop" /\ idx <= Len(all_media_files)

file_ext == SubSeq(extension(media_filepath), 2, Len(extension(media_filepath)))

\* the for loop moves to the next media file; json_filepath and timestamp
\* are not read again before they are assigned
NextFile ==
    /\ idx' = idx + 1
    /\ pc' = "loop"
    /\ json_filepath' = None
    /\ timestamp' = NoTimestampValue

\* (mutant) the handler logs the error and forgets to count the file
ExceptHandlerNotCounted(e) ==
    /\ skipped_files' = skipped_files
    /\ outcome' = [outcome EXCEPT ![media_filepath] = e]
    /\ NextFile
    /\ UNCHANGED <<processed_files, processed_media_basenames>>

\* (mutant) no handler around the body of the loop: the exception ends the
\* script
ExceptHandlerAborts(e) ==
    /\ skipped_files' = skipped_files
    /\ outcome' = [outcome EXCEPT ![media_filepath] = e]
    /\ pc' = "aborted"
    /\ UNCHANGED <<idx, json_filepath, timestamp, processed_files,
                   processed_media_basenames>>

\* except Exception as e: the file is logged and counted as skipped
ExceptHandler(e) ==
    /\ skipped_files' = skipped_files + 1
    /\ outcome' = [outcome EXCEPT ![media_filepath] = e]
    /\ NextFile
    /\ UNCHANGED <<processed_files, processed_media_basenames>>

\* json_filepath = find_json_for_media(...); the else branch of
\* "if json_filepath" counts the file as skipped
Resolve ==
    /\ InLoop
    /\ LET found == find_json_for_media(media_filepath, all_json_files)
       IN  IF found = None
           THEN /\ skipped_files' = skipped_files + 1
                /\ outcome' = [outcome EXCEPT ![media_filepath] = "no_json"]
                /\ NextFile
                /\ UNCHANGED resolved
           ELSE /\ json_filepath' = found
                /\ resolved' = [resolved EXCEPT ![media_filepath] = found]
                /\ pc' = "read"
                /\ UNCHANGED <<skipped_files, outcome, idx, timestamp>>
    /\ UNCHANGED <<fs, dirs, all_media_files, all_json_files, processed_files,
                   processed_media_basenames, deleted_count, removed, events,
                   nfaults>>
    /\ UNCHANGED <<cleanup_state, history>>

\* open, json.load, int() or datetime.fromtimestamp raises
ReadFails ==
    /\ pc = "read"
    /\ nfaults < MaxFaults
    /\ nfaults' = nfaults + 1
    /\ ExceptHandler("error_read")
    /\ UNCHANGED <<fs, dirs, all_media_files, all_json_files, deleted_count,
                   removed, resolved, events>>
    /\ UNCHANGED <<cleanup_state, history>>

\* (mutant) a missing photoTakenTime is read as timestamp 0 and the file is
\* processed like any other
NoTimestampProcessed ==
    /\ pc = "read"
    /\ fs[json_filepath].bytes.ts = NoTimestampValue
    /\ timestamp' = NoTimestampValue
    /\ pc' = "write"
    /\ UNCHANGED <<fs, dirs, all_media_files, all_json_files, idx,
                   json_filepath, processed_files, skipped_files,
                   processed_media_basenames, deleted_count, removed, outcome,
                   resolved, events, nfaults>>
    /\ UNCHANGED <<cleanup_state, history>>

\* the sidecar holds no photoTakenTime.timestamp
NoTimestamp ==
    /\ pc = "read"
    /\ fs[json_filepath].bytes.ts = NoTimestampValue
    /\ skipped_files' = skipped_files + 1
    /\ outcome' = [outcome EXCEPT ![media_filepath] = "no_timestamp"]
    /\ NextFile
    /\ UNCHANGED <<fs, dirs, all_media_files, all_json_files, processed_files,
                   processed_media_basenames, deleted_count, removed, resolved,
                   events, nfaults>>
    /\ UNCHANGED <<cleanup_state, history>>

\* timestamp = int(metadata['photoTakenTime']['timestamp'])
ExtractTimestamp ==
    /\ pc = "read"
    /\ fs[json_filepath].bytes.ts # NoTimestampValue
    /\ timestamp' = fs[json_filepath].bytes.ts
    /\ pc' = "write"
    /\ UNCHANGED <<fs, dirs, all_media_files, all_json_files, idx,
                   json_filepath, processed_files, skipped_files,
                   processed_media_basenames, deleted_count, removed, outcome,
                   resolved, events, nfaults>>
    /\ UNCHANGED <<cleanup_state, history>>

Logged(e) == events' = [events EXCEPT ![media_filepath] = Append(@, e)]

\* piexif.insert, image.save or video.save rewrote the file with the new tags
WriteInternalOk ==
    /\ pc = "write"
    /\ file_ext \in image_extensions \cup video_extensions
    /\ fs' = [fs EXCEPT ![media_filepath].bytes.st = "tagged",
                        ![media_filepath].bytes.ts = timestamp]
    /\ Logged("write")
    /\ pc' = "utime"
    /\ UNCHANGED <<dirs, all_media_files, all_json_files, idx, json_filepath,
                   timestamp, processed_files, skipped_files,
                   processed_media_basenames, deleted_count, removed, outcome,
                   resolved, nfaults>>
    /\ UNCHANGED <<cleanup_state, history>>

\* mutagen.File returned None: a warning, nothing written
WriteInternalUnsupported ==
    /\ pc = "write"
    /\ file_ext \in video_extensions
    /\ Logged("write_unsupported")
    /\ pc' = "utime"
    /\ UNCHANGED <<fs, dirs, all_media_files, all_json_files, idx,
                   json_filepath, timestamp, processed_files, skipped_files,
                   processed_media_basenames, deleted_count, removed, outcome,
                   resolved, nfaults>>
    /\ UNCHANGED <<cleanup_state, history>>

\* (mutant) no inner try: the error of the internal write reaches the outer
\* handler and the file is skipped
WriteInternalFailsFatal ==
    /\ pc = "write"
    /\ nfaults < MaxFaults
    /\ nfaults' = nfaults + 1
    /\ \E partial \in BOOLEAN :
          fs' = IF partial
                THEN [fs EXCEPT ![media_filepath].bytes.st = "partial"]
                ELSE fs
    /\ events' = [events EXCEPT ![media_filepath] = Append(@, "write_failed")]
    /\ skipped_files' = skipped_files + 1
    /\ outcome' = [outcome EXCEPT ![media_filepath] = "error_write"]
    /\ idx' = idx + 1
    /\ pc' = "loop"
    /\ json_filepath' = None
    /\ timestamp' = NoTimestampValue
    /\ UNCHANGED <<dirs, all_media_files, all_json_files, processed_files,
                   processed_media_basenames, deleted_count, removed, resolved>>
    /\ UNCHANGED <<cleanup_state, history>>

\* the inner try raised: a warning; the file is rewritten in place, so the
\* call may have failed before or after it began to overwrite the bytes
WriteInternalFails ==
    /\ pc = "write"
    /\ nfaults < MaxFaults
    /\ nfaults' = nfaults + 1
    /\ \E partial \in BOOLEAN :
          fs' = IF partial
                THEN [fs EXCEPT ![media_filepath].bytes.st = "partial"]
                ELSE fs
    /\ Logged("write_failed")
    /\ pc' = "utime"
    /\ UNCHANGED <<dirs, all_media_files, all_json_files, idx, json_filepath,
                   timestamp, processed_files, skipped_files,
                   processed_media_basenames, deleted_count, removed, outcome,
                   resolved>>
    /\ UNCHANGED <<cleanup_state, history>>

\* os.utime(media_filepath, (timestamp, timestamp))
UtimeOk ==
    /\ pc = "utime"
    /\ fs' = [fs EXCEPT ![media_filepath].atime = timestamp,
                        ![media_filepath].mtime = timestamp]
    /\ Logged("utime")
    /\ pc' = "move"
    /\ UNCHANGED <<dirs, all_media_files, all_json_files, idx, json_filepath,
                   timestamp, processed_files, skipped_files,
                   processed_media_basenames, deleted_count, removed, outcome,
                   resolved, nfaults>>
    /\ UNCHANGED <<cleanup_state, history>>

\* (mutant) the error of os.utime is swallowed and the file is moved with
\* its old times
UtimeFailsIgnored ==
    /\ pc = "utime"
    /\ nfaults < MaxFaults
    /\ nfaults' = nfaults + 1
    /\ pc' = "move"
    /\ UNCHANGED <<fs, dirs, all_media_files, all_json_files, idx,
                   json_filepath, timestamp, processed_files, skipped_files,
                   processed_media_basenames, deleted_count, removed, outcome,
                   resolved, events>>
    /\ UNCHANGED <<cleanup_state, history>>

\* os.utime raises
UtimeFails ==
    /\ pc = "utime"
    /\ nfaults < MaxFaults
    /\ nfaults' = nfaults + 1
    /\ ExceptHandler("error_utime")
    /\ UNCHANGED <<fs, dirs, all_media_files, all_json_files, deleted_count,
                   removed, resolved, events>>
    /\ UNCHANGED <<cleanup_state, history>>

\* os.path.relpath(d, root_directory) of a directory at or below the root
relpath(d) ==
    IF d = root_directory THEN root_directory
    ELSE SubSeq(d, Len(root_directory) + 2, Len(d))

\* (mutant) every file goes to the output directory itself
destination_dir_flat(p) == completed_directory

\* os.path.join(completed_directory, relative_path); "Completed/." names the
\* output directory itself
destination_dir(p) ==
    IF relpath(dirname(p)) = root_directory THEN completed_directory
    ELSE join(completed_directory, relpath(dirname(p)))

destination_filepath(p) == join(destination_dir(p), basename(p))

\* os.makedirs(d, exist_ok=True): d and every missing ancestor
Makedirs(d) ==
    {SubSeq(d, 1, i) : i \in {k \in 2..Len(d) : k = Len(d) \/ d[k + 1] = "/"}}

\* base_name_for_cleanup: the base name without a trailing (N), then without
\* a trailing -edited or _edited
cleanup_key(filename) == strip_edited(strip_number(splitext(filename)[1]))

\* os.makedirs raises
MakedirsFails ==
    /\ pc = "move"
    /\ nfaults < MaxFaults
    /\ nfaults' = nfaults + 1
    /\ ExceptHandler("error_makedirs")
    /\ UNCHANGED <<fs, dirs, all_media_files, all_json_files, deleted_count,
                   removed, resolved, events>>
    /\ UNCHANGED <<cleanup_state, history>>

\* shutil.move raises: the directories are made, the file is where it was
MoveFails ==
    /\ pc = "move"
    /\ nfaults < MaxFaults
    /\ nfaults' = nfaults + 1
    /\ dirs' = dirs \cup Makedirs(destination_dir(media_filepath))
    /\ ExceptHandler("error_move")
    /\ UNCHANGED <<fs, all_media_files, all_json_files, deleted_count,
                   removed, resolved, events>>
    /\ UNCHANGED <<cleanup_state, history>>

\* the file is moved, its cleanup key recorded and processed_files counted
MoveOk ==
    /\ pc = "move"
    /\ dirs' = dirs \cup Makedirs(destination_dir(media_filepath))
    /\ LET dst == destination_filepath(media_filepath)
       IN  fs' = [p \in (DOMAIN fs \ {media_filepath}) \cup {dst} |->
                     IF p = dst THEN fs[media_filepath] ELSE fs[p]]
    /\ Logged("move")
    /\ processed_media_basenames' =
           processed_media_basenames \cup {cleanup_key(basename(media_filepath))}
    /\ processed_files' = processed_files + 1
    /\ outcome' = [outcome EXCEPT ![media_filepath] = "processed"]
    /\ NextFile
    /\ UNCHANGED <<all_media_files, all_json_files, skipped_files,
                   deleted_count, removed, resolved, nfaults>>
    /\ UNCHANGED <<cleanup_state, history>>

\* the loop is over: the summary, then the first prompt if any file was
\* processed
EndLoop ==
    /\ pc = "loop"
    /\ idx > Len(all_media_files)
    /\ pc' = IF processed_media_basenames # {} THEN "ask_delete_json"
             ELSE "ask_delete_folders"
    /\ UNCHANGED <<fs, dirs, all_media_files, all_json_files, idx,
                   json_filepath, timestamp, processed_files, skipped_files,
                   processed_media_basenames, deleted_count, removed, outcome,
                   resolved, events, nfaults>>
    /\ UNCHANGED <<cleanup_state, history>>

-----------------------------------------------------------------------------
(* main: deletion of the sidecars *)

\* the sidecars of all_json_files whose file name starts with a cleanup key
MatchesKey(json_path) ==
    \E base_name \in processed_media_basenames :
        startswith(basename(json_path), base_name)

\* (mutant) no break after a removal: the sidecar is counted once for every
\* cleanup key its name starts with
DeleteJsonYesPerKey ==
    /\ pc = "ask_delete_json"
    /\ \E failing \in SUBSET {all_json_files[i] : i \in 1..Len(all_json_files)} :
          /\ nfaults + Cardinality(failing) <= MaxFaults
          /\ \A j \in failing : MatchesKey(j)
          /\ nfaults' = nfaults + Cardinality(failing)
          /\ remove_failed' = failing
          /\ removed' = {all_json_files[i] : i \in
                            {k \in 1..Len(all_json_files) :
                                /\ MatchesKey(all_json_files[k])
                                /\ all_json_files[k] \notin failing}}
    /\ deleted_count' =
          Cardinality({jb \in removed' \X processed_media_basenames :
                          startswith(basename(jb[1]), jb[2])})
    /\ fs' = [p \in DOMAIN fs \ removed' |-> fs[p]]
    /\ delete_choice' = "yes"
    /\ pc' = "ask_delete_folders"
    /\ UNCHANGED <<dirs, all_media_files, all_json_files, idx, json_filepath,
                   timestamp, processed_files, skipped_files,
                   processed_media_basenames, outcome, resolved, events>>
    /\ UNCHANGED <<cleanup_choice, deleted_folders_count, rmdir_failed, history>>

\* the answer is yes: os.remove on every matching sidecar, once, counted
\* when it returns; failing holds the sidecars whose removal raises OSError
DeleteJsonYes ==
    /\ pc = "ask_delete_json"
    /\ \E failing \in SUBSET {all_json_files[i] : i \in 1..Len(all_json_files)} :
          /\ nfaults + Cardinality(failing) <= MaxFaults
          /\ \A j \in failing : MatchesKey(j)
          /\ nfaults' = nfaults + Cardinality(failing)
          /\ remove_failed' = failing
          /\ removed' = {all_json_files[i] : i \in
                            {k \in 1..Len(all_json_files) :
                                /\ MatchesKey(all_json_files[k])
                                /\ all_json_files[k] \notin failing}}
    /\ deleted_count' = Cardinality(removed')
    /\ fs' = [p \in DOMAIN fs \ removed' |-> fs[p]]
    /\ delete_choice' = "yes"
    /\ pc' = "ask_delete_folders"
    /\ UNCHANGED <<dirs, all_media_files, all_json_files, idx, json_filepath,
                   timestamp, processed_files, skipped_files,
                   processed_media_basenames, outcome, resolved, events>>
    /\ UNCHANGED <<cleanup_choice, deleted_folders_count, rmdir_failed, history>>

\* the answer is no
DeleteJsonNo ==
    /\ pc = "ask_delete_json"
    /\ delete_choice' = "no"
    /\ pc' = "ask_delete_folders"
    /\ UNCHANGED <<fs, dirs, all_media_files, all_json_files, idx,
                   json_filepath, timestamp, processed_files, skipped_files,
                   processed_media_basenames, deleted_count, removed, outcome,
                   resolved, events, nfaults>>
    /\ UNCHANGED <<cleanup_choice, deleted_folders_count, remove_failed,
                   rmdir_failed, history>>

-----------------------------------------------------------------------------
(* delete_empty_folders and its prompt *)

\* the folders for which os.walk(root_dir, topdown=False) yields no dirnames
\* and no filenames, the root aside.  The walk lists a folder before it
\* descends into it, so dirnames holds the subfolders the folder had when the
\* pass began.
empty_folders(root_dir, ds, files) ==
    {dirpath \in ds :
        /\ abspath(dirpath) # abspath(root_dir)
        /\ ~\E d \in ds : d # root_dir /\ dirname(d) = dirpath
        /\ ~\E f \in files : dirname(f) = dirpath}

\* the folders left by one pass in which os.rmdir raises on those of failing
delete_empty_folders(root_dir, ds, files, failing) ==
    ds \ (empty_folders(root_dir, ds, files) \ failing)

\* (mutant) the pass also leaves the output directory alone
delete_empty_folders_keep_output(root_dir, ds, files, failing) ==
    ds \ (empty_folders(root_dir, ds, files) \ (failing \cup {completed_directory}))

\* the answer is yes: delete_empty_folders(root_directory)
DeleteFoldersYes ==
    /\ pc = "ask_delete_folders"
    /\ \E failing \in SUBSET empty_folders(root_directory, dirs, DOMAIN fs) :
          /\ nfaults + Cardinality(failing) <= MaxFaults
          /\ nfaults' = nfaults + Cardinality(failing)
          /\ rmdir_failed' = failing
          /\ dirs' = delete_empty_folders(root_directory, dirs, DOMAIN fs, failing)
    /\ deleted_folders_count' = Cardinality(dirs \ dirs')
    /\ cleanup_choice' = "yes"
    /\ pc' = "done"
    /\ UNCHANGED <<fs, all_media_files, all_json_files, idx, json_filepath,
                   timestamp, processed_files, skipped_files,
                   processed_media_basenames, deleted_count, removed, outcome,
                   resolved, events>>
    /\ UNCHANGED <<delete_choice, remove_failed, history>>

\* (mutant) the answer is no and the folders are removed all the same
DeleteFoldersNoPrunes ==
    /\ pc = "ask_delete_folders"
    /\ cleanup_choice' = "no"
    /\ dirs' = delete_empty_folders(root_directory, dirs, DOMAIN fs, {})
    /\ pc' = "done"
    /\ UNCHANGED <<fs, all_media_files, all_json_files, idx,
                   json_filepath, timestamp, processed_files, skipped_files,
                   processed_media_basenames, deleted_count, removed, outcome,
                   resolved, events, nfaults>>
    /\ UNCHANGED <<delete_choice, deleted_folders_count, remove_failed,
                   rmdir_failed, history>>

\* the answer is no
DeleteFoldersNo ==
    /\ pc = "ask_delete_folders"
    /\ cleanup_choice' = "no"
    /\ pc' = "done"
    /\ UNCHANGED <<fs, dirs, all_media_files, all_json_files, idx,
                   json_filepath, timestamp, processed_files, skipped_files,
                   processed_media_basenames, deleted_count, removed, outcome,
                   resolved, events, nfaults>>
    /\ UNCHANGED <<delete_choice, deleted_folders_count, remove_failed,
                   rmdir_failed, history>>

-----------------------------------------------------------------------------
(* The specifications *)

Next ==
    \/ CreateCompleted
    \/ Scan
    \/ Resolve
    \/ ReadFails
    \/ NoTimestamp
    \/ ExtractTimestamp
    \/ WriteInternalOk
    \/ WriteInternalUnsupported
    \/ WriteInternalFails
    \/ UtimeOk
    \/ UtimeFails
    \/ MakedirsFails
    \/ MoveFails
    \/ MoveOk
    \/ EndLoop
    \/ DeleteJsonYes
    \/ DeleteJsonNo
    \/ DeleteFoldersYes
    \/ DeleteFoldersNo

Spec == Init /\ [][Next]_vars

-----------------------------------------------------------------------------
(* The script started a second time in the same root directory *)

\* the media files and sidecars of the runs that are followed by a rerun
RerunMediaPool == {join(DirA, <<"a">> \o DotJpg), join(DirA, <<"a","b">> \o DotMp4)}
RerunJsonPool ==
    {join(DirA, <<"a">> \o DotJson), join(DirA, <<"a","b">> \o DotMp4 \o DotJson)}

InitRerun ==
    /\ fs \in FileSystems(RerunMediaPool, RerunJsonPool, MaxMedia, MaxJson)
    /\ dirs = {root_directory, DirA}
    /\ pc = "start"
    /\ all_media_files = <<>>
    /\ all_json_files = <<>>
    /\ idx = 1
    /\ outcome = <<>>
    /\ resolved = <<>>
    /\ events = <<>>
    /\ InitCommon

\* main() is entered again: its variables start afresh, the disk is as the
\* first run left it
Rerun ==
    /\ pc = "done"
    /\ run = 1
    /\ run' = 2
    /\ relocated' = {destination_filepath(f) :
                        f \in {g \in DOMAIN outcome : outcome[g] = "processed"}}
    /\ pc' = "start"
    /\ all_media_files' = <<>>
    /\ all_json_files' = <<>>
    /\ idx' = 1
    /\ json_filepath' = None
    /\ timestamp' = NoTimestampValue
    /\ processed_files' = 0
    /\ skipped_files' = 0
    /\ processed_media_basenames' = {}
    /\ deleted_count' = 0
    /\ removed' = {}
    /\ outcome' = <<>>
    /\ resolved' = <<>>
    /\ events' = <<>>
    /\ delete_choice' = ""
    /\ cleanup_choice' = ""
    /\ deleted_folders_count' = 0
    /\ remove_failed' = {}
    /\ rmdir_failed' = {}
    /\ UNCHANGED <<fs, dirs, nfaults>>

NextRerun ==
    \/ Next
    \/ Rerun

SpecRerun == InitRerun /\ [][NextRerun]_vars

-----------------------------------------------------------------------------
(* The scan alone, in a root that holds output of earlier runs *)

CompletedOld == completed_directory \o <<"_","o","l","d">>

InventoryTree ==
    {root_directory, DirA, completed_directory, join(completed_directory, <<"A">>),
     CompletedOld}

InventoryMediaPool ==
    {join(d, <<"a">> \o DotJpg) : d \in InventoryTree \ {root_directory}}

InventoryJsonPool ==
    {join(d, <<"a">> \o DotJson) : d \in InventoryTree \ {root_directory}}

InitInventory ==
    /\ fs \in FileSystems(InventoryMediaPool, InventoryJsonPool, MaxMedia, MaxJson)
    /\ dirs \in {InventoryTree, InventoryTree \ {completed_directory,
                                                   join(completed_directory, <<"A">>)}}
    /\ \A p \in DOMAIN fs : dirname(p) \in dirs
    /\ pc = "start"
    /\ all_media_files = <<>>
    /\ all_json_files = <<>>
    /\ idx = 1
    /\ outcome = <<>>
    /\ resolved = <<>>
    /\ events = <<>>
    /\ InitCommon

NextInventory ==
    \/ CreateCompleted
    \/ Scan

SpecInventory == InitInventory /\ [][NextInventory]_vars

\* the scan and the body of the for loop
LoopBody ==
    \/ Scan
    \/ Resolve
    \/ ReadFails
    \/ NoTimestamp
    \/ ExtractTimestamp
    \/ WriteInternalOk
    \/ WriteInternalUnsupported
    \/ WriteInternalFails
    \/ UtimeOk
    \/ UtimeFails
    \/ MakedirsFails
    \/ MoveFails
    \/ MoveOk

\* main() from its start to the summary: no step waits for input
LoopStep ==
    \/ CreateCompleted
    \/ LoopBody
    \/ EndLoop

\* ENABLED <<LoopBody>>_vars, written from the guards of its steps: past the
\* creation of the output directory and until the list is exhausted, the
\* statement main() stands at can be executed
LoopBodyEnabled ==
    /\ pc \in {"scan", "loop", "read", "write", "utime", "move"}
    /\ ~(pc = "loop" /\ idx > Len(all_media_files))

\* main() up to the summary, run by an interpreter that is not stopped from
\* outside: every call returns or raises, so a statement that can be
\* executed is executed.  For LoopBody this is weak fairness with its
\* enabling condition spelled out.
FairSpec ==
    /\ Init
    /\ [][LoopStep]_vars
    /\ WF_vars(CreateCompleted)
    /\ WF_vars(EndLoop)
    /\ (<>[]LoopBodyEnabled => []<><<LoopBody>>_vars)

-----------------------------------------------------------------------------
(* find_json_for_media alone, over lists of sidecars in any order *)

Stem == <<"a","b","c">>
Supplemental ==
    <<".","s","u","p","p","l","e","m","e","n","t","a","l","-",
      "m","e","t","a","d","a","t","a">>

ResolveMediaPool ==
    {join(DirA, Stem \o DotJpg),
     join(DirA, Stem \o <<"(","1",")">> \o DotJpg),
     join(DirA, Stem \o <<"-","e","d","i","t","e","d">> \o DotJpg),
     join(DirA, Stem \o DotMp4)}

ResolveJsonPool ==
    {join(DirA, Stem \o DotJpg \o DotJson),
     join(DirA, Stem \o DotJpg \o <<"(","1",")">> \o DotJson),
     join(DirA, Stem \o DotJpg \o Supplemental \o DotJson),
     join(DirA, <<"a","b">> \o DotJson),
     join(DirA, <<"a">> \o DotJson),
     join(DirB, Stem \o DotJpg \o DotJson),
     join(DirB, <<"a","b">> \o DotJson)}

\* the lists of at most n distinct elements of S
ListsUpTo(S, n) == UNION {Perms(T) : T \in SubsetsUpTo(S, n)}

InitResolve ==
    /\ \E m \in ResolveMediaPool :
         \E js \in ListsUpTo(ResolveJsonPool, MaxPool) :
            /\ fs = [p \in {m} \cup {js[i] : i \in 1..Len(js)} |->
                        IF p = m THEN MediaFile(p)
                        ELSE JsonFile(p, PhotoTakenTime(p))]
            /\ all_media_files = <<m>>
            /\ all_json_files = js
            /\ outcome = [f \in {m} |-> "pending"]
            /\ resolved = [f \in {m} |-> None]
            /\ events = [f \in {m} |-> <<>>]
    /\ dirs = {root_directory, DirA, DirB}
    /\ pc = "loop"
    /\ idx = 1
    /\ InitCommon

NextResolve == Resolve

SpecResolve == InitResolve /\ [][NextResolve]_vars

-----------------------------------------------------------------------------
(* Properties *)

Media == DOMAIN outcome

Finished(f) == outcome[f] # "pending"

LoopDone == pc \in {"ask_delete_json", "ask_delete_folders", "done"}

Has(seq, e) == \E i \in 1..Len(seq) : seq[i] = e

WriteAttempts == {"write", "write_unsupported", "write_failed"}

\* C1: no sidecar is the resolved match of more than one media file.  Stated
\* here for media files of the sidecar's own directory that both reached
\* Processed, the case the claim describes.
C1_AtMostOneClaim ==
    \A f, g \in Media :
        (/\ f # g
         /\ outcome[f] = "processed"
         /\ outcome[g] = "processed"
         /\ dirname(f) = dirname(resolved[f])
         /\ dirname(g) = dirname(resolved[g]))
        => resolved[f] # resolved[g]

\* C2: the sidecar find_json_for_media returns lies in the directory of the
\* media file.
C2_SameDirectory ==
    \A f \in Media :
        resolved[f] # None => dirname(resolved[f]) = dirname(f)

\* C3: every sidecar the cleanup removes was the resolved match of a media
\* file that reached Processed.
C3_OnlyConsumedRemoved ==
    \A j \in removed :
        \E f \in Media : outcome[f] = "processed" /\ resolved[f] = j

\* the sidecar timestamp the loop read for f, while the sidecar is on disk
SidecarTs(f) == fs[resolved[f]].bytes.ts

Moved(f) ==
    /\ f \notin DOMAIN fs
    /\ destination_filepath(f) \in DOMAIN fs
    /\ fs[destination_filepath(f)].bytes.id = f

AtSource(f) ==
    /\ f \in DOMAIN fs
    /\ fs[f].bytes.id = f
    /\ destination_filepath(f) \notin DOMAIN fs

C4_Order ==
    \A f \in Media :
        /\ Has(events[f], "move") =>
              LET n == Len(events[f])
              IN  /\ n >= 3
                  /\ events[f][n] = "move"
                  /\ events[f][n - 1] = "utime"
                  /\ events[f][n - 2] \in WriteAttempts
        /\ outcome[f] = "processed" =>
              /\ Moved(f)
              /\ Has(events[f], "move")
              /\ fs[destination_filepath(f)].mtime # OriginalTime
        /\ outcome[f] \in {"error_read", "error_utime"} => AtSource(f)

C4_NothingAfterMove ==
    \A f \in Media :
        outcome[f] = "processed" =>
            /\ outcome'[f] = "processed"
            /\ events'[f] = events[f]
            /\ f \notin DOMAIN fs'
            /\ destination_filepath(f) \in DOMAIN fs'
            /\ fs'[destination_filepath(f)] = fs[destination_filepath(f)]

\* C4: a media file is moved only after the internal write attempt and the
\* utime call, nothing touches it after the move, and a file whose sidecar
\* read, timestamp extraction or utime call raised stays at its path.
C4_RelocationLast == []C4_Order /\ [][C4_NothingAfterMove]_vars

C4_Witness ==
    /\ LoopDone
    /\ \E f, g \in Media :
          /\ outcome[f] = "processed"
          /\ Has(events[f], "write_failed")
          /\ outcome[g] = "error_utime"

\* C5: a media file whose sidecar has a timestamp and whose internal write
\* raised or was unsupported, with utime, makedirs and move succeeding, is
\* moved to the output tree with both times set to the sidecar timestamp and
\* is counted as processed.
C5_WriteFailureNonFatal ==
    \A f \in Media :
        (/\ Finished(f)
         /\ resolved[f] \in DOMAIN fs
         /\ SidecarTs(f) # NoTimestampValue
         /\ Has(events[f], "write_failed") \/ Has(events[f], "write_unsupported")
         /\ outcome[f] \notin {"error_utime", "error_makedirs", "error_move"})
        => /\ outcome[f] = "processed"
           /\ processed_files >= 1
           /\ Moved(f)
           /\ fs[destination_filepath(f)].atime = SidecarTs(f)
           /\ fs[destination_filepath(f)].mtime = SidecarTs(f)

C5_Witness ==
    \E f, g \in Media :
        /\ outcome[f] = "processed" /\ Has(events[f], "write_failed")
        /\ outcome[g] = "processed" /\ Has(events[g], "write_unsupported")

\* C6: every finished media file is counted once, as processed or as skipped,
\* and after the loop the two counters add up to the number of media files.
C6_ExactlyOneOutcome ==
    /\ processed_files = Cardinality({f \in Media : outcome[f] = "processed"})
    /\ skipped_files =
          Cardinality({f \in Media : outcome[f] \notin {"pending", "processed"}})
    /\ pc \in {"loop", "read", "write", "utime", "move"} =>
          processed_files + skipped_files = idx - 1
    /\ LoopDone =>
          /\ processed_files + skipped_files = Len(all_media_files)
          /\ \A f \in Media : Finished(f)
          /\ Media = {all_media_files[i] : i \in 1..Len(all_media_files)}

C6_Witness ==
    /\ LoopDone
    /\ processed_files = 1
    /\ skipped_files = 1
    /\ \E f \in Media : outcome[f] = "error_move"

C9_Untouched ==
    \A f \in Media :
        (/\ Finished(f)
         /\ resolved[f] \in DOMAIN fs
         /\ SidecarTs(f) = NoTimestampValue)
        => /\ outcome[f] \in {"no_timestamp", "error_read"}
           /\ events[f] = <<>>
           /\ AtSource(f)
           /\ fs[f] = MediaFile(f)
           /\ skipped_files >= 1

C9_Step ==
    (pc = "read" /\ fs[json_filepath].bytes.ts = NoTimestampValue)
    => /\ skipped_files' = skipped_files + 1
       /\ UNCHANGED <<fs, dirs, processed_files, processed_media_basenames>>

\* C9: a media file whose sidecar has no photoTakenTime timestamp is not
\* written, not re-timed and not moved, stays at its path, is counted as
\* skipped, and records no cleanup key.
C9_MissingTimestamp == []C9_Untouched /\ [][C9_Step]_vars

C9_Witness ==
    /\ LoopDone
    /\ \E f, g \in Media : outcome[f] = "no_timestamp" /\ outcome[g] = "processed"

Faulted(f) ==
    \/ outcome[f] \in {"error_read", "error_utime", "error_makedirs", "error_move"}
    \/ Has(events[f], "write_failed")

AllAttempted ==
    /\ Media = {all_media_files[i] : i \in 1..Len(all_media_files)}
    /\ \A f \in Media : Finished(f)

\* C11: the run reaches the summary, and once the sidecar read, the internal
\* write, the utime call or the move of a media file has raised, the loop
\* still goes on to the summary with every media file of the list attempted.
C11_FailureIsolation ==
    /\ <>(LoopDone /\ AllAttempted)
    /\ (\E f \in Media : Faulted(f)) ~> (LoopDone /\ AllAttempted)

C11_Witness ==
    /\ LoopDone
    /\ \E i, k \in 1..Len(all_media_files) :
          /\ i < k
          /\ outcome[all_media_files[i]] \in {"error_read", "error_utime", "error_move"}
          /\ outcome[all_media_files[k]] = "processed"

\* C10: a media file whose internal write and whose relocation both failed
\* has its path and its bytes as before the run.
C10_NoMutateOnFail ==
    \A f \in Media :
        (/\ Has(events[f], "write_failed")
         /\ outcome[f] = "error_move")
        => /\ f \in DOMAIN fs
           /\ fs[f].bytes = MediaFile(f).bytes

\* the sidecar names the first tier of the specification reconstructs: core
\* stem, extension, the stripped (N), an optional supplemental-metadata
\* marker, ".json"
Tier1Names(media_filename) ==
    LET base_name == splitext(media_filename)[1]
        ext == splitext(media_filename)[2]
        numbered == strip_number(strip_edited(base_name))
        core == strip_edited(strip_number(strip_edited(base_name)))
        dup == SubSeq(strip_edited(base_name), Len(numbered) + 1,
                      Len(strip_edited(base_name)))
    IN  {core \o ext \o dup \o DotJson,
         core \o ext \o dup \o Supplemental \o DotJson}

SameDirJsons(f) ==
    {all_json_files[i] : i \in {k \in 1..Len(all_json_files) :
                                   dirname(all_json_files[k]) = dirname(f)}}

PrefixQualifiers(f) ==
    {j \in SameDirJsons(f) :
        startswith(basename(f), splitext(basename(j))[1])}

\* C7: when the media file's directory holds a sidecar with a first-tier
\* name and a sidecar that matches only by prefix, the sidecar returned has
\* a first-tier name.
C7_TierOrdering ==
    \A f \in Media :
        (/\ resolved[f] # None
         /\ \E j \in SameDirJsons(f) : basename(j) \in Tier1Names(basename(f))
         /\ \E j \in PrefixQualifiers(f) :
               basename(j) \notin Tier1Names(basename(f)))
        => basename(resolved[f]) \in Tier1Names(basename(f))

\* C8: when no exact name is found and several sidecars of the directory
\* qualify by prefix, the one with the longest file name is returned.
C8_LongestPrefix ==
    \A f \in Media :
        (/\ resolved[f] # None
         /\ exact_match(f, all_json_files) = None
         /\ PrefixQualifiers(f) # {})
        => /\ resolved[f] \in PrefixQualifiers(f)
           /\ \A j \in PrefixQualifiers(f) :
                 Len(basename(j)) <= Len(basename(resolved[f]))

\* C12: past its creation the output directory exists, and so does the root:
\* the pruning of empty folders removes neither.
C12_PruningProtects ==
    pc # "start" => root_directory \in dirs /\ completed_directory \in dirs

\* C13: after a pass of delete_empty_folders in which no os.rmdir raised, a
\* second pass over the tree removes nothing.
C13_PruneIdempotent ==
    (pc = "done" /\ cleanup_choice = "yes" /\ rmdir_failed = {})
    => delete_empty_folders(root_directory, dirs, DOMAIN fs, {}) = dirs

ScannedSidecars == {all_json_files[i] : i \in 1..Len(all_json_files)}

KeysOf(j) ==
    {base_name \in processed_media_basenames : startswith(basename(j), base_name)}

C15_IdempotentRerun ==
    run = 2 =>
        /\ \A i \in 1..Len(all_media_files) : all_media_files[i] \notin relocated
        /\ \A i \in 1..Len(all_json_files) : all_json_files[i] \notin relocated
        /\ \A p \in relocated :
              /\ p \in DOMAIN fs
              /\ \A f \in Media : fs[p].bytes.id # f /\ destination_filepath(f) # p

C15_Witness ==
    /\ run = 2
    /\ pc = "done"
    /\ relocated # {}
    /\ \E f \in Media : outcome[f] = "processed"

\* the names stem.I.json for the still-image extensions I
SubstitutedNames(media_filename) ==
    {splitext(media_filename)[1] \o <<".">> \o I \o DotJson : I \in image_extensions}

IsVideo(f) ==
    SubSeq(extension(f), 2, Len(extension(f))) \in video_extensions

\* find_json_for_media has returned for every media file before position idx
Looked(f) ==
    \E i \in 1..Len(all_media_files) :
        all_media_files[i] = f /\ (i < idx \/ (i = idx /\ pc # "loop"))

\* C16: for a video file without a sidecar of an exact name whose directory
\* holds a sidecar stem.I.json with a still-image extension I, the sidecar
\* returned is such a sidecar of that directory.
C16_ExtensionSubstitution ==
    \A f \in Media :
        (/\ Looked(f)
         /\ IsVideo(f)
         /\ exact_match(f, all_json_files) = None
         /\ \E j \in SameDirJsons(f) : basename(j) \in SubstitutedNames(basename(f)))
        => /\ resolved[f] \in SameDirJsons(f)
           /\ basename(resolved[f]) \in SubstitutedNames(basename(f))

SidecarsOnDisk(files) == {p \in files : extension(p) = DotJson}

C17_Before ==
    /\ delete_choice # "yes" => removed = {} /\ deleted_count = 0
    /\ cleanup_choice # "yes" => deleted_folders_count = 0
    /\ (delete_choice # "" \/ cleanup_choice # "") => LoopDone /\ AllAttempted
    /\ ~LoopDone => SidecarsOnDisk(DOMAIN fs) = {p \in DOMAIN fs : fs[p].bytes.st = "json"}

C17_Step ==
    /\ ~(SidecarsOnDisk(DOMAIN fs) \subseteq DOMAIN fs')
          => /\ pc = "ask_delete_json"
             /\ AllAttempted
             /\ delete_choice = "" /\ delete_choice' = "yes"
    /\ ~(dirs \subseteq dirs')
          => /\ pc = "ask_delete_folders"
             /\ AllAttempted
             /\ cleanup_choice = "" /\ cleanup_choice' = "yes"
    /\ (delete_choice = "" /\ delete_choice' = "no") => fs' = fs /\ dirs' = dirs
    /\ (cleanup_choice = "" /\ cleanup_choice' = "no") => fs' = fs /\ dirs' = dirs

\* C17: a step that deletes a sidecar or removes a folder is taken at its
\* prompt, answered yes, when every media file of the list has its outcome;
\* a prompt answered no changes neither the files nor the folders.
C17_CleanupGated == []C17_Before /\ [][C17_Step]_vars

C17_Witness ==
    /\ pc = "done"
    /\ delete_choice = "yes" /\ removed # {}
    /\ cleanup_choice = "yes" /\ DirB \notin dirs
    /\ \E f \in Media : outcome[f] = "error_move"

InsideOutput(p) ==
    \/ dirname(p) = completed_directory
    \/ IsUnder(dirname(p), completed_directory)

\* C18: after the scan, a file with a supported media extension or with the
\* extension .json that is in neither list lies inside the output directory.
C18_ExcludesExactlyOutput ==
    pc = "loop" =>
        \A p \in DOMAIN fs :
            (/\ extension(p) \in supported_extensions \cup {DotJson}
             /\ \A i \in 1..Len(all_media_files) : all_media_files[i] # p
             /\ \A i \in 1..Len(all_json_files) : all_json_files[i] # p)
            => InsideOutput(p)

\* the path of f below the output directory: ./d/name becomes
\* ./Completed/d/name
BelowOutput(f) == completed_directory \o SubSeq(f, Len(root_directory) + 1, Len(f))

\* C19: a processed media file is at its own relative path below the output
\* directory with both times equal to the timestamp of its sidecar, and two
\* processed media files are at two paths.
C19_Relocation ==
    /\ \A f \in Media :
          outcome[f] = "processed" =>
             /\ BelowOutput(f) \in DOMAIN fs
             /\ fs[BelowOutput(f)].bytes.id = f
             /\ fs[BelowOutput(f)].atime = PhotoTakenTime(resolved[f])
             /\ fs[BelowOutput(f)].mtime = PhotoTakenTime(resolved[f])
    /\ \A f, g \in Media :
          (f # g /\ outcome[f] = "processed" /\ outcome[g] = "processed")
          => destination_filepath(f) # destination_filepath(g)

C19_Witness ==
    /\ pc = "done"
    /\ \E f, g \in Media :
          /\ f # g
          /\ basename(f) = basename(g)
          /\ outcome[f] = "processed"
          /\ outcome[g] = "processed"

====
